---- MODULE Spec2Model ----
(***************************************************************************)
(* Model of klondike's batch streaming scripts:                            *)
(*   klondike/scripts/stream_csv_to_database.py  (offset-reread loop)      *)
(*   klondike/scripts/stream_csv_to_bigquery.py  (lazy-partition loop)     *)
(* A source file is a sequence of lines, each line a row of NumCols text   *)
(* cells.  The connector is a sink whose write_dataframe either returns    *)
(* or raises.                                                              *)
(* BQSpec models klondike/gcp/bigquery.py: the BigQueryConnector           *)
(* constructor, write_dataframe and query against one destination table.   *)
(***************************************************************************)
EXTENDS Integers, Sequences, FiniteSets, TLC

\* ---------------------------------------------------------------- bounds
MaxRows == 3
NumCols == 1
MaxBatchSize == 3
MaxInfer == 1

\* ------------------------------------------------------------ input sets
CellValues == {"k", "1"}
IntCells == {"1"}

Lines == [1..NumCols -> CellValues]

\* A source is a missing path or a file of 0..MaxRows+1 lines (a 0-line file
\* is a zero-byte file; otherwise line 1 is the header).
Sources ==
  {[exists |-> FALSE, lines |-> <<>>]} \cup
  {[exists |-> TRUE, lines |-> l] : l \in UNION {[1..n -> Lines] : n \in 0..(MaxRows + 1)}}

BatchSizes == (-1)..MaxBatchSize
InferLengths == 0..MaxInfer

NoKwargs == [x \in {} |-> x]
KwargChoices ==
  { NoKwargs,
    [if_exists |-> "append"],
    [if_exists |-> "bogus", max_bad_records |-> "10"] }

Functions == {"stream_csv_to_database", "stream_csv_to_bigquery"}

\* destination arguments of the call
DestinationTableName == "my_dataset.my_table"
DatasetName == "my_dataset"
TableName == "my_table"

\* ------------------------------------------------------------- variables
VARIABLES
  fn,               \* which streaming function is running
  source,           \* the file at csv_path
  batch_size,       \* argument batch_size
  infer_schema_length, \* argument infer_schema_length
  kwargs,           \* the caller's **bigquery_kwargs
  pc,               \* position of the run
  records_written,  \* local records_written
  skip_rows_count,  \* local skip_rows_count (stream_csv_to_database)
  batch_df,         \* the batch being uploaded
  pending,          \* batches collected and not yet iterated (stream_csv_to_bigquery)
  collected,        \* whether the partition has been collected (stream_csv_to_bigquery)
  calls,            \* connector.write_dataframe calls made, in order
  returned,         \* number of write_dataframe calls that returned
  reads,            \* number of reads of the source file
  exc,              \* exception that reached the caller ("" when none)
  exc_info,         \* what that exception carries about the run
  log               \* log lines emitted

\* klondike/gcp/bigquery.py: one BigQueryConnector, its environment and the
\* destination table its client talks to
VARIABLES
  app_creds,            \* argument app_creds / self.app_creds
  bypass_env_variable,  \* argument bypass_env_variable
  environ0,             \* os.environ[google_environment_variable] before construction
  environ,              \* os.environ[google_environment_variable]
  timeout,              \* self.__timeout
  client,               \* self.__client
  table,                \* the destination table in BigQuery
  bq_pc,                \* "new", "ready" or "init_failed"
  ncalls,               \* method calls made on the connector
  last                  \* the last method call: arguments, client traffic, outcome

bqvars == <<app_creds, bypass_env_variable, environ0, environ, timeout, client,
            table, bq_pc, ncalls, last>>

\* klondike/snowflake/snowflake.py: one SnowflakeConnector and its environment
VARIABLES
  sf_args,    \* the five snowflake_* constructor arguments
  sf_env,     \* the five SNOWFLAKE_* environment variables
  sf_attrs,   \* the five attributes the constructor sets
  sf_pc,      \* "new", "ready" or "init_failed"
  sf_table,   \* whether the destination table exists in Snowflake
  sf_last     \* the last method call: arguments, connections, writes, outcome

sfvars == <<sf_args, sf_env, sf_attrs, sf_pc, sf_table, sf_last>>

\* snowflake.py / postgres.py: one use of connector.connection(), as a
\* with-block of the caller or inside query
VARIABLES
  conn_dialect,  \* "snowflake" or "postgres"
  conn_op,       \* "with" (the caller's own block) or "query"
  conn_fault,    \* the step that raises in this run, or "none"
  conn_pc,       \* position of control
  conn_stmt,     \* statements of query run so far
  conn_events,   \* the steps run (driver, connection and cursor calls, block body), in order
  conn_exc       \* the exception in flight or propagated, "" for none

connvars == <<conn_dialect, conn_op, conn_fault, conn_pc, conn_stmt, conn_events, conn_exc>>

\* klondike/gcp/cloud_storage.py: one CloudStorageConnector, the local file
\* system and the calls running on the connector
VARIABLES
  gcs_app_creds,  \* self.app_creds
  gcs_env_set,    \* google_environment_variable in os.environ
  gcs_bypass,     \* self.bypass_env_var_check
  gcs_pc,         \* "new" or "ready"
  gcs_client,     \* self._client: 0 for None, else the number of the client object
  gcs_created,    \* the Client constructors called, in order
  gcs_accesses,   \* what each access of .client gave: a client number, 0 when it raised
  fs,             \* local files: path -> content, "" when there is no file
  th              \* the get_blob / put_blob calls: arguments, position, effects

gcsvars == <<gcs_app_creds, gcs_env_set, gcs_bypass, gcs_pc, gcs_client, gcs_created,
             gcs_accesses, fs, th>>

\* the state of the components other than the streaming functions and the
\* BigQueryConnector
ext_vars == <<sfvars, connvars, gcsvars>>

stream_vars == <<fn, source, batch_size, infer_schema_length, kwargs, pc,
          records_written, skip_rows_count, batch_df, pending, collected, calls,
          returned, reads, exc, exc_info, log>>

vars == <<stream_vars, bqvars, ext_vars>>

\* ------------------------------------------------------------- helpers
Min(a, b) == IF a < b THEN a ELSE b

NoDf == [columns |-> <<>>, dtypes |-> <<>>, rows |-> <<>>]

\* len(df)
DfLen(df) == Len(df.rows)

\* polars renames a repeated header name to <name>_duplicated_<k>
ColumnNames(header) ==
  [i \in 1..Len(header) |->
     LET k == Cardinality({j \in 1..(i - 1) : header[j] = header[i]})
     IN IF k = 0 THEN header[i]
        ELSE header[i] \o "_duplicated_" \o ToString(k - 1)]

\* dtype of column c, inferred from the sampled rows; no sampling means text
InferDtype(sample, c) ==
  IF Len(sample) > 0 /\ \A r \in 1..Len(sample) : sample[r][c] \in IntCells
  THEN "Int64" ELSE "String"

InferSchema(header, rows, infer_len) ==
  [c \in 1..Len(header) |->
     IF infer_len = 0 THEN "String"
     ELSE InferDtype(SubSeq(rows, 1, Min(infer_len, Len(rows))), c)]

\* a cell that does not parse under its column's dtype
ParseFails(rows, dtypes) ==
  \E r \in 1..Len(rows) : \E c \in 1..Len(dtypes) :
     dtypes[c] = "Int64" /\ rows[r][c] \notin IntCells

read_csv_unbounded(src, infer_len, skip_rows, n_rows) ==
  IF n_rows < 0 THEN [ok |-> FALSE, io |-> FALSE, exc |-> "OverflowError", df |-> NoDf]
  ELSE IF ~src.exists THEN [ok |-> FALSE, io |-> TRUE, exc |-> "FileNotFoundError", df |-> NoDf]
  ELSE
    LET rest == SubSeq(src.lines, skip_rows + 1, Len(src.lines)) IN
    IF Len(rest) = 0 THEN [ok |-> FALSE, io |-> TRUE, exc |-> "NoDataError", df |-> NoDf]
    ELSE
      LET header == rest[1]
          data == SubSeq(rest, 2, Len(rest))
          dtypes == InferSchema(header, data, infer_len)
      IN IF ParseFails(data, dtypes)
         THEN [ok |-> FALSE, io |-> TRUE, exc |-> "ComputeError", df |-> NoDf]
         ELSE [ok |-> TRUE, io |-> TRUE, exc |-> "",
               df |-> [columns |-> ColumnNames(header), dtypes |-> dtypes, rows |-> data]]

\* pl.read_csv(path, infer_schema_length=, skip_rows=, n_rows=): skip_rows
\* lines are dropped first, the next line is parsed as the header, and up to
\* n_rows of the lines after it are the data.
read_csv(src, infer_len, skip_rows, n_rows) ==
  IF n_rows < 0 THEN [ok |-> FALSE, io |-> FALSE, exc |-> "OverflowError", df |-> NoDf]
  ELSE IF ~src.exists THEN [ok |-> FALSE, io |-> TRUE, exc |-> "FileNotFoundError", df |-> NoDf]
  ELSE
    LET rest == SubSeq(src.lines, skip_rows + 1, Len(src.lines)) IN
    IF Len(rest) = 0 THEN [ok |-> FALSE, io |-> TRUE, exc |-> "NoDataError", df |-> NoDf]
    ELSE
      LET header == rest[1]
          data == SubSeq(rest, 2, Min(Len(rest), n_rows + 1))
          dtypes == InferSchema(header, data, infer_len)
      IN IF ParseFails(data, dtypes)
         THEN [ok |-> FALSE, io |-> TRUE, exc |-> "ComputeError", df |-> NoDf]
         ELSE [ok |-> TRUE, io |-> TRUE, exc |-> "",
               df |-> [columns |-> ColumnNames(header), dtypes |-> dtypes, rows |-> data]]

\* lines 54-58: no except clause surrounds the read or the write, so an
\* exception reaches the caller as the library or the connector raised it,
\* with nothing about the run attached
NoContext == [x \in {} |-> x]

LogLine(kind, n) == [kind |-> kind, rows |-> n]

\* ------------------------------------------- BigQueryConnector: values
\* cap on the method calls made on one connector
MaxCalls == 1
\* rows of the DataFrame handed to write_dataframe: 1..MaxDfRows
MaxDfRows == 1
\* rows a query can yield: 0..MaxResultRows
MaxResultRows == 1

\* default of the constructor's timeout argument
DefaultTimeout == 60

\* Python values: None, a str, or a dict given as its sequence of items
None_ == [type |-> "NoneType", value |-> ""]
Str(s) == [type |-> "str", value |-> s]
Dict(items) == [type |-> "dict", value |-> items]

\* Python truth value of None, a str or a dict
Truthy(v) ==
  /\ v.type # "NoneType"
  /\ v.type = "str" => v.value # ""
  /\ v.type = "dict" => Len(v.value) > 0

AppCredsChoices ==
  {None_, Str(""), Str("/creds.json"), Dict(<<>>), Dict(<< <<"type", "service_account">> >>)}

\* the environment variable: unset, set to the empty string, or set to a path
EnvChoices ==
  {[set |-> FALSE, value |-> ""], [set |-> TRUE, value |-> ""],
   [set |-> TRUE, value |-> "/env.json"]}

\* os.environ.get(name)
environ_get(e) == IF e.set THEN Str(e.value) ELSE None_

\* json.dumps of a dict of at most one str item
json_dumps(d) ==
  IF Len(d.value) = 0 THEN "{}"
  ELSE "{\"" \o d.value[1][1] \o "\": \"" \o d.value[1][2] \o "\"}"

\* __setup_google_app_creds: the value the environment variable is set to
setup_google_app_creds(creds) ==
  [set |-> TRUE,
   value |-> IF creds.type = "dict" THEN json_dumps(creds) ELSE creds.value]

\* the constructor's test for raising once app_creds is falsy, without the
\* bypass flag
missing_credentials_nobypass(e, bypass) == ~Truthy(environ_get(e))

\* the constructor's test for raising once app_creds is falsy
missing_credentials(e, bypass) == ~Truthy(environ_get(e)) /\ ~bypass

\* a BigQuery table: absent, or present with a number of rows
AbsentTable == [exists |-> FALSE, rows |-> 0]
TableChoices == {AbsentTable, [exists |-> TRUE, rows |-> 0], [exists |-> TRUE, rows |-> 1]}

\* utilities.IF_EXISTS_BEHAVIOR
IF_EXISTS_BEHAVIOR == {"fail", "append", "truncate", "drop"}

\* values a caller passes as if_exists
IfExistsChoices == IF_EXISTS_BEHAVIOR \cup {"replace"}

\* a validation that accepts every input
validate_if_exists_behavior_any(user_input) == TRUE

\* utilities.validate_if_exists_behavior
validate_if_exists_behavior(user_input) == user_input \in IF_EXISTS_BEHAVIOR

DISPOSITION_MAP ==
  [fail |-> "WRITE_EMPTY", append |-> "WRITE_APPEND", truncate |-> "WRITE_TRUNCATE"]

\* a LoadJobConfig object; id tells the caller's object from one made inside
NoneConfig == [id |-> "None"]
FreshLoadJobConfig ==
  [id |-> "fresh", source_format |-> "None", schema |-> "None",
   max_bad_records |-> 0, write_disposition |-> "None", autodetect |-> "None"]
CallerLoadJobConfig ==
  [id |-> "caller", source_format |-> "CSV", schema |-> "None",
   max_bad_records |-> 0, write_disposition |-> "None", autodetect |-> "True"]
LoadJobConfigChoices == {NoneConfig, CallerLoadJobConfig}

\* names defined on the LoadJobConfig class
LoadJobConfigAttributes ==
  {"autodetect", "create_disposition", "max_bad_records", "schema",
   "source_format", "write_disposition"}
ReservedAttributes == {"source_format", "schema", "max_bad_records", "write_disposition"}

\* **load_kwargs of a write_dataframe call: none, a name LoadJobConfig does
\* not define, a name it defines
NoLoadKwargs == [x \in {} |-> x]
LoadKwargChoices == {NoLoadKwargs, [labels_ |-> "x"], [autodetect |-> "False"]}

\* max_bad_records and table_schema of a write_dataframe call: the defaults,
\* or both given
WriteOptionChoices ==
  {[max_bad_records |-> 0, table_schema |-> "None"],
   [max_bad_records |-> 1, table_schema |-> "fields"]}

\* __set_load_job_config: the configured object, or the exception raised
set_load_job_config(base_job_config, max_bad_records, table_schema, if_exists, kw) ==
  LET base == IF base_job_config.id = "None" THEN FreshLoadJobConfig ELSE base_job_config
  IN  IF if_exists \notin DOMAIN DISPOSITION_MAP
        THEN [exc |-> "KeyError", config |-> NoneConfig]
      ELSE IF \E k \in DOMAIN kw : k \in LoadJobConfigAttributes /\ k \notin ReservedAttributes
        THEN [exc |-> "TypeError", config |-> NoneConfig]
      ELSE [exc |-> "",
            config |-> [base EXCEPT !.source_format = "PARQUET",
                                    !.schema = table_schema,
                                    !.max_bad_records = max_bad_records,
                                    !.write_disposition = DISPOSITION_MAP[if_exists]]]

\* the load job at the service: the table after the job, or the job's error
load_job_result(tbl, disposition, n) ==
  CASE disposition = "WRITE_EMPTY" ->
         IF tbl.exists /\ tbl.rows > 0
           THEN [exc |-> "Conflict", table |-> tbl]
           ELSE [exc |-> "", table |-> [exists |-> TRUE, rows |-> n]]
    [] disposition = "WRITE_APPEND" ->
         [exc |-> "", table |-> [exists |-> TRUE, rows |-> tbl.rows + n]]
    [] OTHER ->
         [exc |-> "", table |-> [exists |-> TRUE, rows |-> n]]

\* the record of one method call
NoCall ==
  [op |-> "", args |-> NoLoadKwargs, outcome |-> "", returned |-> None_,
   deletes |-> 0, loads |-> <<>>, queries |-> <<>>,
   table_before |-> AbsentTable, client_before |-> "None"]

\* write_dataframe run against table tbl with client cl
write_dataframe(tbl, cl, a) ==
  LET call == [NoCall EXCEPT !.op = "write_dataframe", !.args = a,
                             !.table_before = tbl, !.client_before = cl]
  IN
  IF ~validate_if_exists_behavior(a.if_exists)
    THEN [table |-> tbl, client |-> cl, call |-> [call EXCEPT !.outcome = "ValueError"]]
  ELSE IF a.if_exists = "drop" /\ ~tbl.exists
    THEN [table |-> tbl, client |-> "Client",
          call |-> [call EXCEPT !.outcome = "NotFound", !.deletes = 1]]
  ELSE
    LET dropped   == a.if_exists = "drop"
        tbl1      == IF dropped THEN AbsentTable ELSE tbl
        cl1       == IF dropped THEN "Client" ELSE cl
        if_exists == IF dropped THEN "fail" ELSE a.if_exists
        call1     == [call EXCEPT !.deletes = IF dropped THEN 1 ELSE 0]
        cfg       == set_load_job_config(NoneConfig, a.max_bad_records, a.table_schema,
                                         if_exists,
                                         ("base_load_conifg" :> a.load_job_config)
                                           @@ a.load_kwargs)
    IN
    IF cfg.exc # ""
      THEN [table |-> tbl1, client |-> cl1, call |-> [call1 EXCEPT !.outcome = cfg.exc]]
    ELSE
      LET job   == load_job_result(tbl1, cfg.config.write_disposition, a.df_rows)
          call2 == [call1 EXCEPT !.loads = <<[destination |-> a.table_name,
                                              rows |-> a.df_rows,
                                              job_config |-> cfg.config]>>]
      IN [table |-> job.table, client |-> "Client",
          call |-> [call2 EXCEPT !.outcome = IF job.exc = "" THEN "returned" ELSE job.exc]]

\* a timeout argument: None or a number of seconds
TimeoutArgChoices ==
  {[given |-> FALSE, seconds |-> 0], [given |-> TRUE, seconds |-> 0],
   [given |-> TRUE, seconds |-> DefaultTimeout \div 2]}

\* a DataFrame of n rows as a return value
DataFrame(n) == [type |-> "DataFrame", value |-> n]

\* query run with client cl and connector timeout t; result_rows is what the
\* query job yields
query(cl, t, a) ==
  LET sent == IF ~(a.timeout.given /\ a.timeout.seconds # 0) THEN t ELSE a.timeout.seconds
      call == [NoCall EXCEPT !.op = "query", !.args = a, !.client_before = cl,
                             !.queries = <<[sql |-> a.sql, timeout |-> sent]>>,
                             !.outcome = "returned"]
  IN  IF a.result_rows = 0
        THEN [call EXCEPT !.returned = DataFrame(0)]
      ELSE IF ~a.return_results
        THEN [call EXCEPT !.returned = None_]
      ELSE [call EXCEPT !.returned = DataFrame(a.result_rows)]

\* no connector is under test
NoConnector ==
  /\ app_creds = None_
  /\ bypass_env_variable = TRUE
  /\ environ0 = [set |-> FALSE, value |-> ""]
  /\ environ = environ0
  /\ timeout = DefaultTimeout
  /\ client = "None"
  /\ table = AbsentTable
  /\ bq_pc = "new"
  /\ ncalls = 0
  /\ last = NoCall

\* ------------------------------------------ SnowflakeConnector: values
\* the connection values the constructor resolves
AuthFields == {"user", "password", "account", "database", "warehouse"}

\* a snowflake_* argument: None, an empty str, a value
SfArgChoices == {None_, Str(""), Str("arg")}

\* a SNOWFLAKE_* environment variable: unset, or set to a value
SfEnvChoices == {[set |-> FALSE, value |-> ""], [set |-> TRUE, value |-> "env"]}

\* `arg if arg else os.getenv(NAME)`, with the environment tried first
resolve_envfirst(arg, e) == IF Truthy(environ_get(e)) THEN environ_get(e) ELSE arg

\* `arg if arg else os.getenv(NAME)`
resolve(arg, e) == IF Truthy(arg) THEN arg ELSE environ_get(e)

\* __validate_authentication: some value is missing
validate_authentication_fails(attrs) == \E f \in AuthFields : ~Truthy(attrs[f])

NoAttrs == [f \in AuthFields |-> None_]

\* the record of one SnowflakeConnector method call
SfNoCall ==
  [op |-> "", args |-> NoContext, outcome |-> "", connects |-> 0, writes |-> <<>>]

\* parameters of SnowflakeConnector.table_exists
TableExistsParameters == {"table_name", "database_name"}

\* keywords write_dataframe passes to table_exists
TableExistsKeywords == {"schema_name", "table_name"}

\* the if/elif chain of write_dataframe: the locals overwrite and
\* auto_create_table after it, or the exception raised in it
if_exists_chain(if_exists, auto_create_table, tbl_exists) ==
  IF if_exists = "drop" /\ auto_create_table
    THEN [exc |-> "", overwrite |-> "True", auto_create_table |-> auto_create_table]
  ELSE IF if_exists = "truncate"
    THEN [exc |-> "", overwrite |-> "True", auto_create_table |-> FALSE]
  ELSE IF if_exists = "append"
    THEN [exc |-> "", overwrite |-> "False", auto_create_table |-> FALSE]
  ELSE IF if_exists = "fail"
    THEN IF ~(TableExistsKeywords \subseteq TableExistsParameters)
           THEN [exc |-> "TypeError", overwrite |-> "unbound",
                 auto_create_table |-> auto_create_table]
         ELSE IF tbl_exists
           THEN [exc |-> "DatabaseError", overwrite |-> "unbound",
                 auto_create_table |-> auto_create_table]
         ELSE [exc |-> "", overwrite |-> "unbound", auto_create_table |-> auto_create_table]
  ELSE [exc |-> "", overwrite |-> "unbound", auto_create_table |-> auto_create_table]

\* SnowflakeConnector.write_dataframe; resp is what write_pandas answers when
\* the table it is to write to exists or is to be created
sf_write_dataframe(a, tbl_exists) ==
  LET call == [SfNoCall EXCEPT !.op = "write_dataframe", !.args = a] IN
  IF ~validate_if_exists_behavior(a.if_exists)
    THEN [call EXCEPT !.outcome = "ValueError"]
  ELSE
    LET c == if_exists_chain(a.if_exists, a.auto_create_table, tbl_exists) IN
    IF c.exc # ""
      THEN [call EXCEPT !.outcome = c.exc]
    ELSE IF c.overwrite = "unbound"
      THEN [call EXCEPT !.connects = 1, !.outcome = "UnboundLocalError"]
    ELSE [call EXCEPT !.connects = 1,
                      !.writes = <<[overwrite |-> c.overwrite,
                                    auto_create_table |-> c.auto_create_table]>>,
                      !.outcome = IF ~tbl_exists /\ ~c.auto_create_table
                                    THEN "ProgrammingError"
                                  ELSE IF a.resp THEN "returned" ELSE "RuntimeError"]

\* no SnowflakeConnector is under test
NoSnowflake ==
  /\ sf_args = NoAttrs
  /\ sf_env = [f \in AuthFields |-> [set |-> FALSE, value |-> ""]]
  /\ sf_attrs = NoAttrs
  /\ sf_pc = "new"
  /\ sf_table = FALSE
  /\ sf_last = SfNoCall

\* --------------------------------------- connection(): values
Dialects == {"snowflake", "postgres"}

\* what query runs on the cursor, in order
Statements(d) ==
  IF d = "snowflake"
    THEN <<"USE DATABASE", "USE WAREHOUSE", "sql", "fetch_arrow_batches">>
    ELSE <<"sql", "fetchall">>

\* the step that raises in a run
FaultChoices ==
  {"none", "connect", "body", "cursor", "cursor.close", "commit", "close",
   "USE DATABASE", "USE WAREHOUSE", "sql", "fetch_arrow_batches", "fetchall"}

\* where control goes when the with-block of connection() is left with
\* exception e in flight, were `conn.close()` not in a finally clause
after_block_nofinally(e) == IF e = "" THEN "committing" ELSE "exited"

\* where control goes when the with-block of connection() is left with
\* exception e in flight: `yield; commit()` inside try, `close()` in finally
after_block(e) == IF e = "" THEN "committing" ELSE "closing"

\* no connection is under test
NoConnection ==
  /\ conn_dialect = "snowflake"
  /\ conn_op = "with"
  /\ conn_fault = "none"
  /\ conn_pc = "start"
  /\ conn_stmt = 0
  /\ conn_events = <<>>
  /\ conn_exc = ""

\* --------------------------------------- CloudStorageConnector: values
\* cap on the direct accesses of the .client property
MaxAccesses == 2

\* the calls that can be in progress on one connector
Threads == {1, 2}

GcsAppCredsChoices == {None_, Str("/creds.json"), Dict(<< <<"type", "service_account">> >>)}

\* a blob name as its "/"-separated parts
BlobNames == {<<"a", "b.csv">>, <<"a_b.csv">>, <<"c", "b.csv">>}

\* a local path as directory and file name; NonePath is local_path=None
NonePath == [dir |-> "", name |-> ""]
TmpPath(name) == [dir |-> "/tmp", name |-> name]
LocalPathChoices == {NonePath, [dir |-> "/home", name |-> "out.csv"], TmpPath("mine.csv")}

\* blob_name.replace('/', '_')
RECURSIVE replace_slash(_)
replace_slash(b) ==
  IF Len(b) = 1 THEN b[1] ELSE b[1] \o "_" \o replace_slash(Tail(b))

\* os.path.basename(blob_name)
basename(b) == b[Len(b)]

\* local_path.startswith("/tmp/")
startswith_tmp(p) == p.dir = "/tmp"

\* get_blob lines 117-118: the path the blob is downloaded to
get_local_path(blob_name, local_path) ==
  IF local_path = NonePath THEN TmpPath(basename(blob_name)) ELSE local_path

\* put_blob line 147: the path the DataFrame is written to
temp_file_path(blob_name) == TmpPath(replace_slash(blob_name))

\* every local path a call can touch
AllPaths ==
  (LocalPathChoices \ {NonePath})
    \cup {TmpPath(basename(b)) : b \in BlobNames}
    \cup {temp_file_path(b) : b \in BlobNames}

\* a call that is not made
NoThread ==
  [op |-> "", blob_name |-> <<>>, local_path |-> NonePath, fault |-> "none",
   pc |-> "off", path |-> NonePath, written |-> FALSE, removes |-> 0,
   read |-> "", exc |-> ""]

\* get_blob calls; fault is the step that raises, or "none"
GetBlobCalls ==
  {[NoThread EXCEPT !.op = "get_blob", !.blob_name = b, !.local_path = l,
                    !.fault = f, !.pc = "start"] :
     b \in BlobNames, l \in LocalPathChoices, f \in {"none", "download", "read"}}

\* put_blob calls; fault is the step that raises, or "none"
PutBlobCalls ==
  {[NoThread EXCEPT !.op = "put_blob", !.blob_name = b, !.fault = f, !.pc = "start"] :
     b \in BlobNames, f \in {"none", "upload"}}

\* the test `self._client is None`, were it to succeed on every access
client_is_none_always(cl) == TRUE

\* the test `self._client is None`
client_is_none(cl) == cl = 0

\* the client property: the exception raised or the client returned, with
\* the constructor called if one was
client_property(creds, env_set, bypass, cl, created) ==
  IF ~client_is_none(cl)
    THEN [exc |-> "", client |-> cl, created |-> created]
  ELSE IF creds # None_
    THEN [exc |-> "", client |-> Len(created) + 1,
          created |-> Append(created,
                        IF creds.type = "dict" THEN "from_service_account_info"
                        ELSE "from_service_account_file")]
  ELSE IF ~bypass /\ env_set
    THEN [exc |-> "", client |-> Len(created) + 1, created |-> Append(created, "Client")]
  ELSE [exc |-> "ValueError", client |-> cl, created |-> created]

\* where put_blob goes after upload_from_filename, were os.remove not in a
\* finally clause
after_upload_nofinally(e) == IF e = "" THEN "remove" ELSE "exited"

\* where put_blob goes after upload_from_filename: the finally clause
after_upload(e) == "remove"

\* no CloudStorageConnector is under test
NoStorage ==
  /\ gcs_app_creds = None_
  /\ gcs_env_set = FALSE
  /\ gcs_bypass = FALSE
  /\ gcs_pc = "new"
  /\ gcs_client = 0
  /\ gcs_created = <<>>
  /\ gcs_accesses = <<>>
  /\ fs = [p \in AllPaths |-> ""]
  /\ th = [t \in Threads |-> NoThread]

\* none of the other components is under test
NoExt == NoSnowflake /\ NoConnection /\ NoStorage

\* ------------------------------------------------------------------ init
Init ==
  /\ NoConnector
  /\ NoExt
  /\ fn \in Functions
  /\ source \in Sources
  /\ batch_size \in BatchSizes
  /\ infer_schema_length \in InferLengths
  /\ kwargs \in KwargChoices
  /\ pc = "idle"
  /\ records_written = 0
  /\ skip_rows_count = 0
  /\ batch_df = NoDf
  /\ pending = <<>>
  /\ collected = FALSE
  /\ calls = <<>>
  /\ returned = 0
  /\ reads = 0
  /\ exc = ""
  /\ exc_info = NoContext
  /\ log = <<>>

\* the table_name keyword handed to write_dataframe
qualified_table_name ==
  IF fn = "stream_csv_to_bigquery" THEN DatasetName \o "." \o TableName
  ELSE DestinationTableName

WriteCall_nokwargs(df) == [df |-> df, table_name |-> qualified_table_name, kwargs |-> NoKwargs]

\* connector.write_dataframe(df=..., table_name=..., **bigquery_kwargs)
WriteCall(df) == [df |-> df, table_name |-> qualified_table_name, kwargs |-> kwargs]

\* ------------------------------------------- stream_csv_to_database
\* lines 35-39: counters set to zero, the opening log line
Start ==
  /\ fn = "stream_csv_to_database"
  /\ pc = "idle"
  /\ records_written' = 0
  /\ skip_rows_count' = 0
  /\ log' = Append(log, LogLine("start", 0))
  /\ pc' = "reading"
  /\ UNCHANGED <<bqvars, ext_vars, fn, source, batch_size, infer_schema_length, kwargs,
                 batch_df, pending, collected, calls, returned, reads, exc, exc_info>>

\* line 50: the zero-row result is the loop's only exit
IsLastRead_short(df) == DfLen(df) < batch_size

IsLastRead(df) == DfLen(df) = 0

\* lines 41-58 and 62-64: one pass of the loop up to the write_dataframe
\* call, or the break and the closing log line; the pass runs when control
\* is at one of the given positions
ReadBatchAt(positions) ==
  /\ fn = "stream_csv_to_database"
  /\ pc \in positions
  /\ LET r == read_csv(source, infer_schema_length, skip_rows_count, batch_size) IN
     /\ reads' = IF r.io THEN reads + 1 ELSE reads
     /\ IF ~r.ok
        THEN /\ pc' = "failed"
             /\ exc' = r.exc
             /\ exc_info' = NoContext
             /\ UNCHANGED <<batch_df, calls, log>>
        ELSE IF IsLastRead(r.df)
        THEN /\ pc' = "done"
             /\ batch_df' = r.df
             /\ log' = Append(log, LogLine("finished", records_written))
             /\ UNCHANGED <<calls, exc, exc_info>>
        ELSE /\ pc' = "writing"
             /\ batch_df' = r.df
             /\ log' = Append(log, LogLine("uploading", DfLen(r.df)))
             /\ calls' = Append(calls, WriteCall(r.df))
             /\ UNCHANGED <<exc, exc_info>>
  /\ UNCHANGED <<bqvars, ext_vars, fn, source, batch_size, infer_schema_length, kwargs,
                 records_written, skip_rows_count, pending, collected, returned>>

ReadBatch_prefetch == ReadBatchAt({"reading", "writing"})

\* the loop body runs only at the top of the loop, after the previous
\* write_dataframe call has returned
ReadBatch == ReadBatchAt({"reading"})

WriteReturns_skip ==
  /\ fn = "stream_csv_to_database"
  /\ pc = "writing"
  /\ returned' = returned + 1
  /\ records_written' = records_written + DfLen(batch_df)
  /\ skip_rows_count' = skip_rows_count + DfLen(batch_df) + 1
  /\ pc' = "reading"
  /\ UNCHANGED <<bqvars, ext_vars, fn, source, batch_size, infer_schema_length, kwargs,
                 batch_df, pending, collected, calls, reads, exc, exc_info, log>>

WriteReturns_fullbatch ==
  /\ fn = "stream_csv_to_database"
  /\ pc = "writing"
  /\ returned' = returned + 1
  /\ records_written' = records_written + batch_size
  /\ skip_rows_count' = skip_rows_count + DfLen(batch_df)
  /\ pc' = "reading"
  /\ UNCHANGED <<bqvars, ext_vars, fn, source, batch_size, infer_schema_length, kwargs,
                 batch_df, pending, collected, calls, reads, exc, exc_info, log>>

\* lines 54-60: write_dataframe returns, both counters advance
WriteReturns ==
  /\ fn = "stream_csv_to_database"
  /\ pc = "writing"
  /\ returned' = returned + 1
  /\ records_written' = records_written + DfLen(batch_df)
  /\ skip_rows_count' = skip_rows_count + DfLen(batch_df)
  /\ pc' = "reading"
  /\ UNCHANGED <<bqvars, ext_vars, fn, source, batch_size, infer_schema_length, kwargs,
                 batch_df, pending, collected, calls, reads, exc, exc_info, log>>

WriteRaises_counted ==
  /\ pc = "writing"
  /\ pc' = "failed"
  /\ exc' = "WriteError"
  /\ exc_info' = NoContext
  /\ records_written' = records_written + DfLen(batch_df)
  /\ UNCHANGED <<bqvars, ext_vars, fn, source, batch_size, infer_schema_length, kwargs,
                 skip_rows_count, batch_df, pending, collected, calls,
                 returned, reads, log>>

WriteRaises_finally ==
  /\ pc = "writing"
  /\ pc' = "failed"
  /\ exc' = "WriteError"
  /\ exc_info' = NoContext
  /\ log' = Append(log, LogLine("finished", records_written))
  /\ UNCHANGED <<bqvars, ext_vars, fn, source, batch_size, infer_schema_length, kwargs,
                 records_written, skip_rows_count, batch_df, pending, collected, calls,
                 returned, reads>>

WriteRaises_swallowed ==
  /\ pc = "writing"
  /\ pc' = "done"
  /\ log' = Append(log, LogLine("finished", records_written))
  /\ UNCHANGED <<bqvars, ext_vars, fn, source, batch_size, infer_schema_length, kwargs,
                 records_written, skip_rows_count, batch_df, pending,
                 collected, calls, returned, reads, exc, exc_info>>

\* line 54 (line 48 in stream_csv_to_bigquery): write_dataframe raises;
\* nothing catches it
WriteRaises ==
  /\ pc = "writing"
  /\ pc' = "failed"
  /\ exc' = "WriteError"
  /\ exc_info' = NoContext
  /\ UNCHANGED <<bqvars, ext_vars, fn, source, batch_size, infer_schema_length, kwargs,
                 records_written, skip_rows_count, batch_df, pending, collected, calls,
                 returned, reads, log>>

\* ------------------------------------------- stream_csv_to_bigquery
\* row slices of at most n rows each, in order
RECURSIVE Slices(_, _)
Slices(rows, n) ==
  IF Len(rows) = 0 THEN <<>>
  ELSE <<SubSeq(rows, 1, Min(n, Len(rows)))>> \o
       Slices(SubSeq(rows, Min(n, Len(rows)) + 1, Len(rows)), n)

\* lazy_df.partition_by_row_count(batch_size).collect() for batch_size >= 1
partition_by_row_count(df, n) ==
  LET s == Slices(df.rows, n) IN
  [i \in 1..Len(s) |-> [columns |-> df.columns, dtypes |-> df.dtypes, rows |-> s[i]]]

\* lines 33-43: the lazy scan (no I/O yet), the counter, the opening log line
StartBigquery ==
  /\ fn = "stream_csv_to_bigquery"
  /\ pc = "idle"
  /\ records_written' = 0
  /\ log' = Append(log, LogLine("start", 0))
  /\ pc' = "reading"
  /\ UNCHANGED <<bqvars, ext_vars, fn, source, batch_size, infer_schema_length, kwargs,
                 skip_rows_count, batch_df, pending, collected, calls,
                 returned, reads, exc, exc_info>>

\* lines 44-46: partition_by_row_count(batch_size).collect() runs the scan
\* over the whole file.  A non-positive slice size is outside the library's
\* contract: it is rejected before the scan runs, or it yields no slice.
Collect ==
  /\ fn = "stream_csv_to_bigquery"
  /\ pc = "reading"
  /\ ~collected
  /\ LET r == read_csv(source, infer_schema_length, 0, Len(source.lines)) IN
     \/ /\ batch_size <= 0
        /\ pc' = "failed"
        /\ exc' = "ValueError"
        /\ exc_info' = NoContext
        /\ UNCHANGED <<pending, collected, reads>>
     \/ /\ ~r.ok
        /\ pc' = "failed"
        /\ exc' = r.exc
        /\ exc_info' = NoContext
        /\ reads' = reads + 1
        /\ UNCHANGED <<pending, collected>>
     \/ /\ r.ok
        /\ collected' = TRUE
        /\ reads' = reads + 1
        /\ pending' = IF batch_size <= 0 THEN <<>>
                      ELSE partition_by_row_count(r.df, batch_size)
        /\ UNCHANGED <<pc, exc, exc_info>>
  /\ UNCHANGED <<bqvars, ext_vars, fn, source, batch_size, infer_schema_length, kwargs,
                 records_written, skip_rows_count, batch_df, calls, returned, log>>

\* lines 44-52 and 55: the for loop takes the next collected batch and
\* calls write_dataframe, or ends with the closing log line
NextBatch ==
  /\ fn = "stream_csv_to_bigquery"
  /\ pc = "reading"
  /\ collected
  /\ IF Len(pending) = 0
     THEN /\ pc' = "done"
          /\ log' = Append(log, LogLine("finished", records_written))
          /\ UNCHANGED <<batch_df, pending, calls>>
     ELSE /\ pc' = "writing"
          /\ batch_df' = Head(pending)
          /\ pending' = Tail(pending)
          /\ log' = Append(log, LogLine("uploading", DfLen(Head(pending))))
          /\ calls' = Append(calls, WriteCall(Head(pending)))
  /\ UNCHANGED <<bqvars, ext_vars, fn, source, batch_size, infer_schema_length, kwargs,
                 records_written, skip_rows_count, collected, returned, reads, exc, exc_info>>

\* lines 48-53: write_dataframe returns, the counter advances
WriteReturnsBigquery ==
  /\ fn = "stream_csv_to_bigquery"
  /\ pc = "writing"
  /\ returned' = returned + 1
  /\ records_written' = records_written + DfLen(batch_df)
  /\ pc' = "reading"
  /\ UNCHANGED <<bqvars, ext_vars, fn, source, batch_size, infer_schema_length, kwargs,
                 skip_rows_count, batch_df, pending, collected, calls, reads, exc, exc_info, log>>

Next ==
  \/ Start
  \/ ReadBatch
  \/ WriteReturns
  \/ WriteRaises
  \/ StartBigquery
  \/ Collect
  \/ NextBatch
  \/ WriteReturnsBigquery

Spec == Init /\ [][Next]_vars

\* the run is one thread of control: while a step is possible, one is taken
FairSpec == Spec /\ WF_vars(Next)

TypeOK ==
  /\ pc \in {"idle", "reading", "writing", "done", "failed"}
  /\ records_written \in 0..MaxRows
  /\ skip_rows_count \in 0..MaxRows
  /\ returned \in 0..Len(calls)

\* --------------------------------------------------- BigQueryConnector
\* no streaming function is running
NoStream ==
  /\ fn = "stream_csv_to_database"
  /\ source = [exists |-> FALSE, lines |-> <<>>]
  /\ batch_size = 1
  /\ infer_schema_length = 0
  /\ kwargs = NoKwargs
  /\ pc = "idle"
  /\ records_written = 0
  /\ skip_rows_count = 0
  /\ batch_df = NoDf
  /\ pending = <<>>
  /\ collected = FALSE
  /\ calls = <<>>
  /\ returned = 0
  /\ reads = 0
  /\ exc = ""
  /\ exc_info = NoContext
  /\ log = <<>>

BQInit ==
  /\ NoStream
  /\ NoExt
  /\ app_creds \in AppCredsChoices
  /\ bypass_env_variable \in BOOLEAN
  /\ environ0 \in EnvChoices
  /\ environ = environ0
  /\ timeout = DefaultTimeout
  /\ client = "None"
  /\ table \in TableChoices
  /\ bq_pc = "new"
  /\ ncalls = 0
  /\ last = NoCall

\* BigQueryConnector.__init__
Construct ==
  /\ bq_pc = "new"
  /\ IF ~Truthy(app_creds)
       THEN /\ IF missing_credentials(environ, bypass_env_variable)
                 THEN /\ bq_pc' = "init_failed"
                      /\ last' = [NoCall EXCEPT !.op = "__init__", !.outcome = "OSError"]
                 ELSE /\ bq_pc' = "ready"
                      /\ last' = [NoCall EXCEPT !.op = "__init__", !.outcome = "returned"]
            /\ UNCHANGED environ
       ELSE /\ environ' = setup_google_app_creds(app_creds)
            /\ bq_pc' = "ready"
            /\ last' = [NoCall EXCEPT !.op = "__init__", !.outcome = "returned"]
  /\ UNCHANGED <<stream_vars, ext_vars, app_creds, bypass_env_variable, environ0, timeout,
                 client, table, ncalls>>

\* one call of BigQueryConnector.write_dataframe
WriteDataframe ==
  /\ bq_pc = "ready"
  /\ ncalls < MaxCalls
  /\ \E n \in 1..MaxDfRows, cfg \in LoadJobConfigChoices, opt \in WriteOptionChoices,
        ie \in IfExistsChoices, lk \in LoadKwargChoices :
       LET r == write_dataframe(table, client,
                  [df_rows |-> n, table_name |-> DestinationTableName,
                   load_job_config |-> cfg, max_bad_records |-> opt.max_bad_records,
                   table_schema |-> opt.table_schema, if_exists |-> ie,
                   load_kwargs |-> lk])
       IN /\ table' = r.table
          /\ client' = r.client
          /\ last' = r.call
  /\ ncalls' = ncalls + 1
  /\ UNCHANGED <<stream_vars, ext_vars, app_creds, bypass_env_variable, environ0, environ,
                 timeout, bq_pc>>

\* one call of BigQueryConnector.query
Query ==
  /\ bq_pc = "ready"
  /\ ncalls < MaxCalls
  /\ \E t \in TimeoutArgChoices, rr \in BOOLEAN, n \in 0..MaxResultRows :
       last' = [query(client, timeout,
                      [sql |-> "sql", timeout |-> t, return_results |-> rr,
                       result_rows |-> n]) EXCEPT !.table_before = table]
  /\ client' = "Client"
  /\ ncalls' = ncalls + 1
  /\ UNCHANGED <<stream_vars, ext_vars, app_creds, bypass_env_variable, environ0, environ,
                 timeout, table, bq_pc>>

BQNext ==
  \/ Construct
  \/ WriteDataframe
  \/ Query

BQSpec == BQInit /\ [][BQNext]_vars

\* ------------------- stream_csv_to_database into a BigQueryConnector
\* **bigquery_kwargs that ask for a pass-through if_exists behaviour
PassThroughChoices ==
  {[if_exists |-> "append"], [if_exists |-> "truncate"], [if_exists |-> "drop"]}

\* a constructed connector with no call made yet, and its destination table
ReadyConnector ==
  /\ app_creds = Str("/creds.json")
  /\ bypass_env_variable = FALSE
  /\ environ0 = [set |-> FALSE, value |-> ""]
  /\ environ = setup_google_app_creds(app_creds)
  /\ timeout = DefaultTimeout
  /\ client = "None"
  /\ table \in TableChoices
  /\ bq_pc = "ready"
  /\ ncalls = 0
  /\ last = NoCall

PipeInit ==
  /\ ReadyConnector
  /\ NoExt
  /\ fn = "stream_csv_to_database"
  /\ source \in Sources
  /\ batch_size \in BatchSizes
  /\ infer_schema_length \in InferLengths
  /\ kwargs \in PassThroughChoices
  /\ pc = "idle"
  /\ records_written = 0
  /\ skip_rows_count = 0
  /\ batch_df = NoDf
  /\ pending = <<>>
  /\ collected = FALSE
  /\ calls = <<>>
  /\ returned = 0
  /\ reads = 0
  /\ exc = ""
  /\ exc_info = NoContext
  /\ log = <<>>

\* the arguments BigQueryConnector.write_dataframe receives from
\* connector.write_dataframe(df=batch_df, table_name=..., **bigquery_kwargs)
ConnectorArgs(c) ==
  [df_rows |-> DfLen(c.df), table_name |-> c.table_name,
   load_job_config |-> NoneConfig, max_bad_records |-> 0, table_schema |-> "None",
   if_exists |-> IF "if_exists" \in DOMAIN c.kwargs THEN c.kwargs.if_exists ELSE "fail",
   load_kwargs |-> [k \in DOMAIN c.kwargs \ {"if_exists"} |-> c.kwargs[k]]]

\* lines 54-60 with the connector's write_dataframe run on the destination:
\* the counters advance when it returns, its exception ends the run
WriteToConnector ==
  /\ fn = "stream_csv_to_database"
  /\ pc = "writing"
  /\ LET r == write_dataframe(table, client, ConnectorArgs(calls[Len(calls)])) IN
     /\ table' = r.table
     /\ client' = r.client
     /\ last' = r.call
     /\ IF r.call.outcome = "returned"
          THEN /\ returned' = returned + 1
               /\ records_written' = records_written + DfLen(batch_df)
               /\ skip_rows_count' = skip_rows_count + DfLen(batch_df)
               /\ pc' = "reading"
               /\ UNCHANGED <<exc, exc_info>>
          ELSE /\ pc' = "failed"
               /\ exc' = r.call.outcome
               /\ exc_info' = NoContext
               /\ UNCHANGED <<returned, records_written, skip_rows_count>>
  /\ ncalls' = ncalls + 1
  /\ UNCHANGED <<ext_vars, app_creds, bypass_env_variable, environ0, environ, timeout, bq_pc,
                 fn, source, batch_size, infer_schema_length, kwargs,
                 batch_df, pending, collected, calls, reads, log>>

PipeNext ==
  \/ Start
  \/ ReadBatch
  \/ WriteToConnector

PipeSpec == PipeInit /\ [][PipeNext]_vars


\* ------------------------------------------------- SnowflakeConnector
SfInit ==
  /\ NoStream
  /\ NoConnector
  /\ NoConnection
  /\ NoStorage
  /\ sf_args \in [AuthFields -> SfArgChoices]
  /\ sf_env \in [AuthFields -> SfEnvChoices]
  /\ sf_attrs = NoAttrs
  /\ sf_pc = "new"
  /\ sf_table \in BOOLEAN
  /\ sf_last = SfNoCall

\* SnowflakeConnector.__init__
SfConstruct ==
  /\ sf_pc = "new"
  /\ sf_attrs' = [f \in AuthFields |-> resolve(sf_args[f], sf_env[f])]
  /\ IF validate_authentication_fails(sf_attrs')
       THEN /\ sf_pc' = "init_failed"
            /\ sf_last' = [SfNoCall EXCEPT !.op = "__init__", !.outcome = "ValueError"]
       ELSE /\ sf_pc' = "ready"
            /\ sf_last' = [SfNoCall EXCEPT !.op = "__init__", !.outcome = "returned"]
  /\ UNCHANGED <<stream_vars, bqvars, connvars, gcsvars, sf_args, sf_env, sf_table>>

\* one call of SnowflakeConnector.write_dataframe
SfWriteDataframe ==
  /\ sf_pc = "ready"
  /\ sf_last.op = "__init__"
  /\ \E ie \in IfExistsChoices, act \in BOOLEAN, resp \in BOOLEAN :
       sf_last' = sf_write_dataframe(
                    [if_exists |-> ie, auto_create_table |-> act, resp |-> resp],
                    sf_table)
  /\ sf_table' = (sf_table \/ (sf_last'.outcome = "returned"))
  /\ UNCHANGED <<stream_vars, bqvars, connvars, gcsvars, sf_args, sf_env, sf_attrs, sf_pc>>

SfNext ==
  \/ SfConstruct
  \/ SfWriteDataframe

SfSpec == SfInit /\ [][SfNext]_vars

\* ------------------------------------- connection() and cursor()
ConnInit ==
  /\ NoStream
  /\ NoConnector
  /\ NoSnowflake
  /\ NoStorage
  /\ conn_dialect \in Dialects
  /\ conn_op \in {"with", "query"}
  /\ conn_fault \in FaultChoices
  /\ conn_pc = "start"
  /\ conn_stmt = 0
  /\ conn_events = <<>>
  /\ conn_exc = ""

\* one step (a call on the driver, the connection or the cursor, or the
\* caller's block body): it is recorded, and it raises when it is the faulty
\* step of this run
Call(name) ==
  /\ conn_events' = Append(conn_events, name)
  /\ conn_exc' = IF conn_fault = name THEN name \o " failed" ELSE conn_exc

\* sf.connect(...) / psycopg2.connect(...): outside the try, so a failure
\* leaves before the with-block is entered
ConnConnect ==
  /\ conn_pc = "start"
  /\ Call("connect")
  /\ conn_pc' = IF conn_fault = "connect" THEN "exited"
                ELSE IF conn_op = "query" THEN "cursor" ELSE "body"
  /\ UNCHANGED <<stream_vars, bqvars, sfvars, gcsvars, conn_dialect, conn_op, conn_fault, conn_stmt>>

\* the caller's own with-block
ConnBody ==
  /\ conn_pc = "body"
  /\ Call("body")
  /\ conn_pc' = after_block(conn_exc')
  /\ UNCHANGED <<stream_vars, bqvars, sfvars, gcsvars, conn_dialect, conn_op, conn_fault, conn_stmt>>

\* cursor(): connection.cursor() is outside the try
ConnCursor ==
  /\ conn_pc = "cursor"
  /\ Call("cursor")
  /\ conn_pc' = IF conn_fault = "cursor" THEN after_block(conn_exc') ELSE "statement"
  /\ UNCHANGED <<stream_vars, bqvars, sfvars, gcsvars, conn_dialect, conn_op, conn_fault, conn_stmt>>

\* query: the next call on the cursor; after the last one, or after one that
\* raises, the cursor's with-block is left; the Postgres query may also
\* return right after execute (no description, or return_results false)
ConnStatement ==
  /\ conn_pc = "statement"
  /\ conn_stmt' = conn_stmt + 1
  /\ Call(Statements(conn_dialect)[conn_stmt'])
  /\ IF conn_exc' # "" \/ conn_stmt' = Len(Statements(conn_dialect))
       THEN conn_pc' = "cursor.close"
       ELSE IF conn_dialect = "postgres"
         THEN conn_pc' \in {"statement", "cursor.close"}
         ELSE conn_pc' = "statement"
  /\ UNCHANGED <<stream_vars, bqvars, sfvars, gcsvars, conn_dialect, conn_op, conn_fault>>

\* cursor(): finally cur.close(), then the connection's with-block is left
ConnCursorClose ==
  /\ conn_pc = "cursor.close"
  /\ Call("cursor.close")
  /\ conn_pc' = after_block(conn_exc')
  /\ UNCHANGED <<stream_vars, bqvars, sfvars, gcsvars, conn_dialect, conn_op, conn_fault, conn_stmt>>

\* connection(): conn.commit() after the yield returns normally
ConnCommit ==
  /\ conn_pc = "committing"
  /\ Call("commit")
  /\ conn_pc' = "closing"
  /\ UNCHANGED <<stream_vars, bqvars, sfvars, gcsvars, conn_dialect, conn_op, conn_fault, conn_stmt>>

\* connection(): finally conn.close(); whatever is in flight reaches the caller
ConnClose ==
  /\ conn_pc = "closing"
  /\ Call("close")
  /\ conn_pc' = "exited"
  /\ UNCHANGED <<stream_vars, bqvars, sfvars, gcsvars, conn_dialect, conn_op, conn_fault, conn_stmt>>

ConnNext ==
  \/ ConnConnect
  \/ ConnBody
  \/ ConnCursor
  \/ ConnStatement
  \/ ConnCursorClose
  \/ ConnCommit
  \/ ConnClose

ConnSpec == ConnInit /\ [][ConnNext]_vars

\* ---------------------------------------------- CloudStorageConnector
\* one connector about to be constructed and one call to make on it
GcsInit ==
  /\ NoStream
  /\ NoConnector
  /\ NoSnowflake
  /\ NoConnection
  /\ gcs_app_creds \in GcsAppCredsChoices
  /\ gcs_env_set \in BOOLEAN
  /\ gcs_bypass \in BOOLEAN
  /\ gcs_pc = "new"
  /\ gcs_client = 0
  /\ gcs_created = <<>>
  /\ gcs_accesses = <<>>
  /\ fs = [p \in AllPaths |-> ""]
  /\ \E c \in GetBlobCalls \cup PutBlobCalls :
       th = [t \in Threads |-> IF t = 1 THEN c ELSE NoThread]

\* a constructed connector with credentials and two calls to make on it at
\* the same time, each a put_blob or a get_blob without local_path
GcsConcInit ==
  /\ NoStream
  /\ NoConnector
  /\ NoSnowflake
  /\ NoConnection
  /\ gcs_app_creds = Str("/creds.json")
  /\ gcs_env_set = FALSE
  /\ gcs_bypass = FALSE
  /\ gcs_pc = "ready"
  /\ gcs_client = 0
  /\ gcs_created = <<>>
  /\ gcs_accesses = <<>>
  /\ fs = [p \in AllPaths |-> ""]
  /\ th \in [Threads -> {c \in GetBlobCalls \cup PutBlobCalls : c.local_path = NonePath}]

\* CloudStorageConnector.__init__: attributes are stored, nothing is checked
GcsConstruct ==
  /\ gcs_pc = "new"
  /\ gcs_pc' = "ready"
  /\ gcs_client' = 0
  /\ UNCHANGED <<stream_vars, bqvars, sfvars, connvars, gcs_app_creds, gcs_env_set,
                 gcs_bypass, gcs_created, gcs_accesses, fs, th>>

\* the effect of one evaluation of self.client on the connector
AccessClient(r) ==
  /\ gcs_client' = r.client
  /\ gcs_created' = r.created
  /\ gcs_accesses' = Append(gcs_accesses, IF r.exc = "" THEN r.client ELSE 0)

\* the caller reads connector.client
GcsAccessClient ==
  /\ gcs_pc = "ready"
  /\ Len(gcs_accesses) < MaxAccesses
  /\ AccessClient(client_property(gcs_app_creds, gcs_env_set, gcs_bypass,
                                  gcs_client, gcs_created))
  /\ UNCHANGED <<stream_vars, bqvars, sfvars, connvars, gcs_app_creds, gcs_env_set,
                 gcs_bypass, gcs_pc, fs, th>>

\* get_blob lines 114-118 / put_blob lines 143-147: self.client.bucket(...),
\* bucket.blob(...), and the local path is chosen
BlobStart ==
  \E t \in Threads :
    /\ gcs_pc = "ready"
    /\ th[t].pc = "start"
    /\ LET r == client_property(gcs_app_creds, gcs_env_set, gcs_bypass,
                                gcs_client, gcs_created) IN
       /\ AccessClient(r)
       /\ th' = [th EXCEPT ![t] =
                   IF r.exc # ""
                     THEN [@ EXCEPT !.pc = "exited", !.exc = r.exc]
                   ELSE IF @.op = "get_blob"
                     THEN [@ EXCEPT !.pc = "download",
                                    !.path = get_local_path(th[t].blob_name, th[t].local_path)]
                   ELSE [@ EXCEPT !.pc = "write_csv",
                                  !.path = temp_file_path(th[t].blob_name)]]
    /\ UNCHANGED <<stream_vars, bqvars, sfvars, connvars, gcs_app_creds, gcs_env_set,
                   gcs_bypass, gcs_pc, fs>>

\* get_blob line 120: blob.download_to_filename(local_path); when the download
\* fails the library removes the file it opened and raises
GetDownload ==
  \E t \in Threads :
    /\ th[t].pc = "download"
    /\ IF th[t].fault = "download"
         THEN /\ fs' = [fs EXCEPT ![th[t].path] = ""]
              /\ th' = [th EXCEPT ![t].pc = "exited", ![t].exc = "NotFound"]
         ELSE /\ fs' = [fs EXCEPT ![th[t].path] = replace_slash(th[t].blob_name)]
              /\ th' = [th EXCEPT ![t].pc = "read", ![t].written = TRUE]
    /\ UNCHANGED <<stream_vars, bqvars, sfvars, connvars, gcs_app_creds, gcs_env_set,
                   gcs_bypass, gcs_pc, gcs_client, gcs_created, gcs_accesses>>

\* get_blob line 123: pl.read_csv(local_path); an exception leaves get_blob
GetRead ==
  \E t \in Threads :
    /\ th[t].pc = "read"
    /\ th' = [th EXCEPT ![t] =
                IF fs[@.path] = ""
                  THEN [@ EXCEPT !.pc = "exited", !.exc = "FileNotFoundError"]
                ELSE IF @.fault = "read"
                  THEN [@ EXCEPT !.pc = "exited", !.exc = "ComputeError"]
                ELSE [@ EXCEPT !.pc = "cleanup", !.read = fs[th[t].path]]]
    /\ UNCHANGED <<stream_vars, bqvars, sfvars, connvars, gcs_app_creds, gcs_env_set,
                   gcs_bypass, gcs_pc, gcs_client, gcs_created, gcs_accesses, fs>>

\* get_blob lines 126-129: os.remove for a path under /tmp/, then return
GetCleanup ==
  \E t \in Threads :
    /\ th[t].pc = "cleanup"
    /\ IF ~startswith_tmp(th[t].path)
         THEN /\ th' = [th EXCEPT ![t].pc = "exited"]
              /\ UNCHANGED fs
         ELSE IF fs[th[t].path] = ""
           THEN /\ th' = [th EXCEPT ![t].pc = "exited", ![t].exc = "FileNotFoundError"]
                /\ UNCHANGED fs
         ELSE /\ th' = [th EXCEPT ![t].pc = "exited", ![t].removes = @ + 1]
              /\ fs' = [fs EXCEPT ![th[t].path] = ""]
    /\ UNCHANGED <<stream_vars, bqvars, sfvars, connvars, gcs_app_creds, gcs_env_set,
                   gcs_bypass, gcs_pc, gcs_client, gcs_created, gcs_accesses>>

\* put_blob line 148: df.write_csv(temp_file_path)
PutWrite ==
  \E t \in Threads :
    /\ th[t].pc = "write_csv"
    /\ fs' = [fs EXCEPT ![th[t].path] = "df of " \o replace_slash(th[t].blob_name)]
    /\ th' = [th EXCEPT ![t].pc = "upload", ![t].written = TRUE]
    /\ UNCHANGED <<stream_vars, bqvars, sfvars, connvars, gcs_app_creds, gcs_env_set,
                   gcs_bypass, gcs_pc, gcs_client, gcs_created, gcs_accesses>>

\* put_blob lines 150-152: blob.upload_from_filename(temp_file_path)
PutUpload ==
  \E t \in Threads :
    /\ th[t].pc = "upload"
    /\ th' = [th EXCEPT ![t] =
                IF fs[@.path] = ""
                  THEN [@ EXCEPT !.pc = after_upload("FileNotFoundError"),
                                 !.exc = "FileNotFoundError"]
                ELSE IF @.fault = "upload"
                  THEN [@ EXCEPT !.pc = after_upload("GoogleCloudError"),
                                 !.exc = "GoogleCloudError"]
                ELSE [@ EXCEPT !.pc = after_upload(""), !.read = fs[th[t].path]]]
    /\ UNCHANGED <<stream_vars, bqvars, sfvars, connvars, gcs_app_creds, gcs_env_set,
                   gcs_bypass, gcs_pc, gcs_client, gcs_created, gcs_accesses, fs>>

\* put_blob lines 154-156: finally os.remove(temp_file_path)
PutRemove ==
  \E t \in Threads :
    /\ th[t].pc = "remove"
    /\ IF fs[th[t].path] = ""
         THEN /\ th' = [th EXCEPT ![t].pc = "exited", ![t].exc = "FileNotFoundError"]
              /\ UNCHANGED fs
         ELSE /\ th' = [th EXCEPT ![t].pc = "exited", ![t].removes = @ + 1]
              /\ fs' = [fs EXCEPT ![th[t].path] = ""]
    /\ UNCHANGED <<stream_vars, bqvars, sfvars, connvars, gcs_app_creds, gcs_env_set,
                   gcs_bypass, gcs_pc, gcs_client, gcs_created, gcs_accesses>>

GcsNext ==
  \/ GcsConstruct
  \/ GcsAccessClient
  \/ BlobStart
  \/ GetDownload
  \/ GetRead
  \/ GetCleanup
  \/ PutWrite
  \/ PutUpload
  \/ PutRemove

\* one call at a time on one connector
GcsSpec == GcsInit /\ [][GcsNext]_vars

GcsConcNext ==
  \/ BlobStart
  \/ GetDownload
  \/ GetRead
  \/ GetCleanup
  \/ PutWrite
  \/ PutUpload
  \/ PutRemove

\* two calls at the same time on one connector, their steps interleaved
GcsConcSpec == GcsConcInit /\ [][GcsConcNext]_vars

\* ------------------------------------------------------ derived values
\* the file has a header line
HasHeader == source.exists /\ Len(source.lines) >= 1

\* the data rows of the file, in file order
DataRows == SubSeq(source.lines, 2, Len(source.lines))

NRows == Len(DataRows)

CeilDiv(n, b) == (n + b - 1) \div b

\* rows of the first k write_dataframe calls, concatenated in call order
RECURSIVE WrittenRows(_)
WrittenRows(k) == IF k = 0 THEN <<>> ELSE WrittenRows(k - 1) \o calls[k].df.rows

\* ---------------------------------------------------------------- claims

\* C1: in stream_csv_to_database, when write_dataframe raises on batch K the
\* error reaches the caller, exactly K-1 writes have returned, the row counter
\* holds only the rows of batches 1..K-1, the failed batch was handed over
\* once, K reads were made and the run takes no further step.
C1_AbortOnWriteFailure ==
  (fn = "stream_csv_to_database" /\ pc = "failed" /\ exc = "WriteError") =>
    /\ Len(calls) >= 1
    /\ returned = Len(calls) - 1
    /\ records_written = Len(WrittenRows(returned))
    /\ calls[Len(calls)].df = batch_df
    /\ reads = Len(calls)
    /\ ~ENABLED Next

C1_Witness ==
  /\ fn = "stream_csv_to_database" /\ pc = "failed" /\ exc = "WriteError"
  /\ Len(calls) = 3 /\ returned = 2 /\ records_written = 2

\* C2: for a file with a header and batch_size >= 1, the rows handed to
\* write_dataframe by stream_csv_to_database, concatenated in call order,
\* are always a prefix of the file's data rows, and all of them, in file
\* order, once the run is done.
C2_BatchesCoverSource ==
  (fn = "stream_csv_to_database" /\ HasHeader /\ batch_size >= 1) =>
    LET w == WrittenRows(Len(calls)) IN
      /\ Len(w) <= NRows
      /\ w = SubSeq(DataRows, 1, Len(w))
      /\ pc = "done" => w = DataRows

C2_Witness ==
  /\ fn = "stream_csv_to_database" /\ pc = "done" /\ batch_size = 2
  /\ NRows = 3 /\ Len(calls) = 2
  /\ DataRows[1] # DataRows[2] /\ DataRows[2] # DataRows[3]
  /\ source.lines[1] # DataRows[1]

\* C3: a run that completes (every write returned) over a file with a header
\* and N data rows, with batch_size B >= 1, made ceil(N / B) write_dataframe
\* calls when N > 0 and none when N = 0, each with a non-empty batch.
C3_BatchCount ==
  (pc = "done" /\ HasHeader /\ batch_size >= 1) =>
    /\ Len(calls) = IF NRows = 0 THEN 0 ELSE CeilDiv(NRows, batch_size)
    /\ returned = Len(calls)
    /\ \A i \in 1..Len(calls) : DfLen(calls[i].df) >= 1

C3_Witness ==
  /\ pc = "done" /\ fn = "stream_csv_to_database"
  /\ NRows = 3 /\ batch_size = 2 /\ Len(calls) = 2 /\ returned = 2

\* C4: after a run that completes over a file with a header and N data rows,
\* with batch_size >= 1, records_written = N and the closing log line
\* reports N.
C4_RowCount ==
  (pc = "done" /\ HasHeader /\ batch_size >= 1) =>
    /\ records_written = NRows
    /\ log[Len(log)] = LogLine("finished", NRows)

C4_Witness ==
  /\ pc = "done" /\ fn = "stream_csv_to_database"
  /\ NRows = 3 /\ batch_size = 2 /\ records_written = 3

\* C5: in every run of stream_csv_to_database the column names and dtypes of
\* every batch after the first equal those of batch 1, and with
\* infer_schema_length = 0 every column of every batch is text.
C5_SchemaStable ==
  fn = "stream_csv_to_database" =>
    /\ \A i \in 2..Len(calls) :
         /\ calls[i].df.columns = calls[1].df.columns
         /\ calls[i].df.dtypes = calls[1].df.dtypes
    /\ infer_schema_length = 0 =>
         \A i \in 1..Len(calls) : \A c \in 1..Len(calls[i].df.dtypes) :
            calls[i].df.dtypes[c] = "String"

\* C6: with batch_size <= 0 the run fails before any I/O, whatever the
\* (readable, headed) source contains: the source is never read,
\* write_dataframe is never called and the run does not complete.
C6_FailFastOnBadBatchSize ==
  (batch_size <= 0 /\ HasHeader) =>
    /\ reads = 0
    /\ Len(calls) = 0
    /\ pc \notin {"writing", "done"}

\* C7: for a source with zero data rows (and batch_size >= 1) no
\* write_dataframe call is made, the run does not fail, and a finished run
\* reports 0 rows written.
C7_EmptySourceNoWrite ==
  (source.exists /\ Len(source.lines) <= 1 /\ batch_size >= 1) =>
    /\ Len(calls) = 0
    /\ pc # "failed"
    /\ pc = "done" => (records_written = 0 /\ log[Len(log)] = LogLine("finished", 0))

\* C8: every write_dataframe call of a run carries the destination table
\* name of the call and exactly the caller's keyword options, the same for
\* every batch.
C8_OptionsForwarded ==
  \A i \in 1..Len(calls) :
    /\ calls[i].table_name =
         (IF fn = "stream_csv_to_database" THEN DestinationTableName
          ELSE "my_dataset.my_table")
    /\ calls[i].kwargs = kwargs
    /\ calls[i].kwargs = calls[1].kwargs
    /\ calls[i].table_name = calls[1].table_name

C8_Witness ==
  /\ Len(calls) = 3 /\ returned = 3
  /\ kwargs = [if_exists |-> "bogus", max_bad_records |-> "10"]
  /\ fn = "stream_csv_to_database"

\* write_dataframe calls that have neither returned nor raised
InFlight == Len(calls) - returned - (IF exc = "WriteError" THEN 1 ELSE 0)

\* C9: in stream_csv_to_database reads and writes alternate: at most one
\* write is in flight, it is in flight exactly while control is inside
\* write_dataframe, every write follows its own read, and read K+1 happens
\* only after K writes have returned.
C9_ReadsWritesAlternate ==
  fn = "stream_csv_to_database" =>
    /\ InFlight \in {0, 1}
    /\ InFlight = 1 <=> pc = "writing"
    /\ Len(calls) <= reads
    /\ reads <= returned + 1

C9_Witness ==
  /\ fn = "stream_csv_to_database" /\ pc = "writing"
  /\ reads = 2 /\ Len(calls) = 2 /\ returned = 1

\* C10: every step of a run moves along IDLE -> READING -> (WRITING ->
\* READING)* -> DONE; FAILED is entered only from READING or WRITING; after
\* DONE or FAILED nothing is read, written or counted; WRITING is entered
\* only from a READING step that produced a non-empty batch.
C10_StateMachine ==
  [][ /\ pc = "idle" => pc' = "reading"
      /\ pc = "reading" => pc' \in {"reading", "writing", "done", "failed"}
      /\ pc = "writing" => pc' \in {"reading", "failed"}
      /\ pc \in {"done", "failed"} =>
           UNCHANGED <<pc, reads, calls, returned, records_written, skip_rows_count, log>>
      /\ pc' = "writing" =>
           /\ pc = "reading"
           /\ Len(calls') = Len(calls) + 1
           /\ calls'[Len(calls')].df = batch_df'
           /\ DfLen(batch_df') >= 1
    ]_vars

C10_Witness ==
  /\ fn = "stream_csv_to_database" /\ pc = "done"
  /\ returned = 3 /\ reads = 4 /\ Len(log) = 5

\* C11: for every readable source and batch_size >= 1, unless a write raises,
\* the run eventually reaches the zero-row read that ends the loop and emits
\* the closing summary.
C11_Terminates ==
  (pc = "idle" /\ source.exists /\ batch_size >= 1) ~>
     (exc = "WriteError" \/
      (pc = "done" /\ DfLen(batch_df) = 0 /\ log[Len(log)].kind = "finished"))

\* C12: when the write of batch K raises, the exception that reaches the
\* caller names batch index K and the number of rows already written.
C12_ErrorNamesBatch ==
  (pc = "failed" /\ exc = "WriteError") =>
    /\ "batch_index" \in DOMAIN exc_info
    /\ exc_info.batch_index = Len(calls)
    /\ "rows_written" \in DOMAIN exc_info
    /\ exc_info.rows_written = records_written

\* C13: stream_csv_to_database opens the source once per run, whatever the
\* number of batches.
C13_SingleScan ==
  fn = "stream_csv_to_database" => reads <= 1

\* C14: every batch handed to write_dataframe has between 1 and batch_size
\* rows, and every batch that is followed by another has exactly batch_size
\* rows.
C14_BatchSizes ==
  /\ \A i \in 1..Len(calls) :
       DfLen(calls[i].df) >= 1 /\ DfLen(calls[i].df) <= batch_size
  /\ \A i \in 1..(Len(calls) - 1) : DfLen(calls[i].df) = batch_size

C14_Witness ==
  /\ batch_size = 2 /\ Len(calls) = 2
  /\ DfLen(calls[1].df) = 2 /\ DfLen(calls[2].df) = 1

\* positions of the log lines of one kind
LinesOfKind(kind) == {i \in 1..Len(log) : log[i].kind = kind}

WroteDataframe == last.op = "write_dataframe"

\* number of delete_table and load_table_from_file calls the last call made
ClientCalls == last.deletes + Len(last.loads)

\* C16: write_dataframe raises ValueError for every if_exists outside
\* fail/append/truncate/drop and for no value inside it, and when it does so
\* it has not touched the client: no client was created, no delete_table and
\* no load_table_from_file call was made, and the table is as it was.
C16_InvalidIfExistsRejected ==
  WroteDataframe =>
    /\ (last.outcome = "ValueError") <=> (last.args.if_exists \notin IF_EXISTS_BEHAVIOR)
    /\ last.outcome = "ValueError" =>
         /\ ClientCalls = 0
         /\ client = last.client_before
         /\ table = last.table_before

\* a call with an if_exists outside the list was refused on a connector whose
\* client had never been created
C16_Witness ==
  /\ WroteDataframe
  /\ last.args.if_exists = "replace"
  /\ last.outcome = "ValueError"
  /\ client = "None"

\* C17: write_dataframe with a valid if_exists makes exactly one
\* load_table_from_file call, whose write disposition is WRITE_EMPTY for fail,
\* WRITE_APPEND for append, WRITE_TRUNCATE for truncate and WRITE_EMPTY for
\* drop; drop deletes the table exactly once before the load and the other
\* values never delete.
C17_DispositionAndOneLoad ==
  (WroteDataframe /\ last.args.if_exists \in IF_EXISTS_BEHAVIOR) =>
    /\ Len(last.loads) = 1
    /\ last.loads[1].job_config.write_disposition =
         (CASE last.args.if_exists = "append" -> "WRITE_APPEND"
            [] last.args.if_exists = "truncate" -> "WRITE_TRUNCATE"
            [] OTHER -> "WRITE_EMPTY")
    /\ last.deletes = (IF last.args.if_exists = "drop" THEN 1 ELSE 0)

\* C18: when the caller passes a load_job_config, the load is made with that
\* object (configured by the connector); an object made inside is used only
\* when the caller passed none.
C18_CallerConfigUsed ==
  (WroteDataframe /\ Len(last.loads) = 1) =>
    last.loads[1].job_config.id =
      (IF last.args.load_job_config = NoneConfig THEN "fresh" ELSE "caller")

\* C19: the constructor raises OSError exactly when app_creds is not given,
\* the environment variable is unset and bypass_env_variable is false; and
\* whenever app_creds is not given the environment variable is left as it was.
C19_ConstructorCredentials ==
  bq_pc # "new" =>
    /\ (bq_pc = "init_failed") <=>
         (~Truthy(app_creds) /\ ~Truthy(environ_get(environ0)) /\ ~bypass_env_variable)
    /\ bq_pc = "init_failed" => last.outcome = "OSError"
    /\ ~Truthy(app_creds) => environ = environ0

\* constructed with no credentials anywhere and the bypass flag set
C19_Witness ==
  /\ bq_pc = "ready"
  /\ ~Truthy(app_creds)
  /\ ~environ0.set
  /\ bypass_env_variable
  /\ last.op = "__init__"

\* C20: query returns None whenever return_results is false, returns a
\* DataFrame of the rows the job yielded (an empty one for no rows) when it
\* is true, and sends the client the caller's timeout when one is given and
\* the connector's otherwise.
C20_QueryResultAndTimeout ==
  last.op = "query" =>
    /\ last.returned =
         (IF last.args.return_results THEN DataFrame(last.args.result_rows) ELSE None_)
    /\ Len(last.queries) = 1
    /\ last.queries[1].timeout =
         (IF last.args.timeout.given THEN last.args.timeout.seconds ELSE timeout)

\* ------------------------------------------------- claims: loop counters
\* C28: in stream_csv_to_database, whenever control is at the top of the loop
\* skip_rows_count equals records_written and equals the summed row counts of
\* the batches whose write has returned; neither counter ever decreases, and
\* a counter changes only in the step where a write returns, by the row count
\* of that batch.
C28_CountersInStep ==
  [][fn = "stream_csv_to_database" =>
       /\ pc' = "reading" =>
            /\ skip_rows_count' = records_written'
            /\ records_written' = Len(WrittenRows(returned)')
       /\ records_written' >= records_written
       /\ skip_rows_count' >= skip_rows_count
       /\ (records_written' # records_written \/ skip_rows_count' # skip_rows_count) =>
            /\ pc = "writing"
            /\ returned' = returned + 1
            /\ records_written' = records_written + DfLen(batch_df)
            /\ skip_rows_count' = skip_rows_count + DfLen(batch_df)]_vars

\* back at the top of the loop after a full batch and a short one
C28_Witness ==
  /\ fn = "stream_csv_to_database"
  /\ pc = "reading"
  /\ returned = 2
  /\ DfLen(calls[1].df) = 2
  /\ DfLen(calls[2].df) = 1
  /\ records_written = 3
  /\ skip_rows_count = 3

\* --------------------------------- claims: the pipeline and its table
\* C27: when stream_csv_to_database forwards if_exists = append, truncate or
\* drop to BigQueryConnector.write_dataframe on every batch and the run over
\* N > batch_size rows completes without error, the destination table holds
\* at least the N source rows, N being the reported records_written.
C27_DestinationHoldsAllRows ==
  (pc = "done" /\ exc = "" /\ batch_size >= 1 /\ NRows > batch_size) =>
    /\ records_written = NRows
    /\ table.exists
    /\ table.rows >= records_written

\* ------------------------------------------ claims: SnowflakeConnector
\* a connection value is supplied neither as an argument nor in the
\* environment
SfMissing(f) == ~Truthy(sf_args[f]) /\ ~Truthy(environ_get(sf_env[f]))

\* C21: constructing SnowflakeConnector raises ValueError exactly when one of
\* user, password, account, database, warehouse is supplied neither as an
\* argument nor through its SNOWFLAKE_* variable; a supplied argument is the
\* value used, whatever the environment holds.
C21_SnowflakeCredentials ==
  sf_pc # "new" =>
    /\ (sf_pc = "init_failed") <=> (\E f \in AuthFields : SfMissing(f))
    /\ sf_pc = "init_failed" => sf_last.outcome = "ValueError"
    /\ \A f \in AuthFields :
         /\ Truthy(sf_args[f]) => sf_attrs[f] = sf_args[f]
         /\ (~Truthy(sf_args[f]) /\ ~SfMissing(f)) => sf_attrs[f] = environ_get(sf_env[f])

\* constructed with the user given both ways and the password only in the
\* environment
C21_Witness ==
  /\ sf_pc = "ready"
  /\ sf_args["user"] = Str("arg")
  /\ sf_env["user"].set
  /\ sf_attrs["user"] = Str("arg")
  /\ sf_args["password"] = None_
  /\ sf_attrs["password"] = Str("env")

\* C22: for if_exists in append, truncate, drop, fail and either value of
\* auto_create_table, SnowflakeConnector.write_dataframe either raises
\* DatabaseError because the table exists (if_exists = fail) or makes exactly
\* one write_pandas call with overwrite bound to True or False; a value
\* outside the four raises ValueError with no connection opened.
C22_SnowflakeWrite ==
  sf_last.op = "write_dataframe" =>
    IF sf_last.args.if_exists \in IF_EXISTS_BEHAVIOR
      THEN \/ /\ sf_last.outcome = "DatabaseError"
              /\ sf_last.args.if_exists = "fail"
              /\ sf_table
              /\ sf_last.writes = <<>>
           \/ /\ Len(sf_last.writes) = 1
              /\ sf_last.writes[1].overwrite \in {"True", "False"}
      ELSE sf_last.outcome = "ValueError" /\ sf_last.connects = 0

\* ------------------------------------------------ claims: connection()
\* positions of a call in the record of calls
Positions(name) == {i \in 1..Len(conn_events) : conn_events[i] = name}

\* the with-block of connection() was entered
EnteredBlock == conn_fault # "connect" /\ Positions("connect") # {}

\* an exception was raised inside the with-block
RaisedInBlock ==
  \E i \in 1..Len(conn_events) :
    /\ conn_events[i] = conn_fault
    /\ conn_fault \notin {"connect", "commit", "close"}

\* C29: in connection() of the Snowflake and Postgres connectors the
\* connection is closed exactly once on every exit from the with-block, commit
\* is called only if the block raised nothing and always before close, an
\* exception raised in the block reaches the caller, and in query the cursor
\* is closed before the connection.
C29_ConnectionLifecycle ==
  /\ Cardinality(Positions("close")) <= 1
  /\ Cardinality(Positions("commit")) <= 1
  /\ Positions("commit") # {} => ~RaisedInBlock
  /\ \A i \in Positions("commit"), j \in Positions("close") : i < j
  /\ \A i \in Positions("cursor.close"), j \in Positions("close") : i < j
  /\ (conn_pc = "exited" /\ EnteredBlock) =>
       /\ Cardinality(Positions("close")) = 1
       /\ conn_events[Len(conn_events)] = "close"
       /\ (conn_op = "query" /\ conn_fault # "cursor") =>
            Cardinality(Positions("cursor.close")) = 1
       /\ RaisedInBlock =>
            /\ conn_exc = conn_fault \o " failed"
            /\ Positions("commit") = {}
       /\ conn_exc = "" => Cardinality(Positions("commit")) = 1

\* a Snowflake query whose third statement raised: cursor closed, no commit,
\* connection closed, the error with the caller
C29_Witness ==
  /\ conn_dialect = "snowflake"
  /\ conn_op = "query"
  /\ conn_pc = "exited"
  /\ conn_exc = "sql failed"
  /\ conn_events = <<"connect", "cursor", "USE DATABASE", "USE WAREHOUSE", "sql",
                     "cursor.close", "close">>

\* ------------------------------------------------ claims: Cloud Storage
\* the accesses of .client that returned a client
Returned == {i \in 1..Len(gcs_accesses) : gcs_accesses[i] # 0}

\* C23: CloudStorageConnector creates its client lazily and once: a
\* connector that was constructed and never asked for .client has _client
\* None and no client constructor was called, whatever its credentials; over
\* any sequence of accesses at most one client is created, and every access
\* that returns gives that same object, which is the one held in _client.
C23_ClientLazyOnce ==
  /\ gcs_accesses = <<>> => (gcs_client = 0 /\ gcs_created = <<>>)
  /\ Len(gcs_created) <= 1
  /\ \A i \in Returned : gcs_accesses[i] = 1 /\ gcs_client = 1
  /\ Returned # {} => Len(gcs_created) = 1

\* two accesses of .client in a row returned the one client that was created
C23_Witness ==
  /\ Len(gcs_accesses) >= 2
  /\ gcs_accesses[1] = 1
  /\ gcs_accesses[2] = 1
  /\ Len(gcs_created) = 1

\* C24: the first access of .client resolves credentials as: app_creds dict
\* gives from_service_account_info; app_creds path gives
\* from_service_account_file; no app_creds and the environment variable set
\* gives the default Client; no app_creds, no environment variable and no
\* bypass raises ValueError; and with bypass_env_var_check and no app_creds a
\* client is obtained without a ValueError.
C24_CredentialResolution ==
  Len(gcs_accesses) >= 1 =>
    /\ (gcs_app_creds # None_ /\ gcs_app_creds.type = "dict") =>
         (gcs_accesses[1] = 1 /\ gcs_created = <<"from_service_account_info">>)
    /\ (gcs_app_creds # None_ /\ gcs_app_creds.type = "str") =>
         (gcs_accesses[1] = 1 /\ gcs_created = <<"from_service_account_file">>)
    /\ (gcs_app_creds = None_ /\ gcs_env_set /\ ~gcs_bypass) =>
         (gcs_accesses[1] = 1 /\ gcs_created = <<"Client">>)
    /\ (gcs_app_creds = None_ /\ ~gcs_env_set /\ ~gcs_bypass) =>
         (gcs_accesses[1] = 0 /\ gcs_created = <<>>)
    /\ (gcs_app_creds = None_ /\ gcs_bypass) => gcs_accesses[1] = 1

\* C25: when a get_blob call that downloaded its file has exited, the file
\* is gone exactly when the connector chose the path itself (no local_path
\* was given): a file at a caller-supplied local_path is still there, and a
\* connector-created file is removed, once, also when reading it failed.
C25_GetBlobCleanup ==
  \A t \in Threads :
    (th[t].op = "get_blob" /\ th[t].pc = "exited" /\ th[t].written) =>
      IF th[t].local_path = NonePath
        THEN fs[th[t].path] = "" /\ th[t].removes = 1
        ELSE fs[th[t].path] # "" /\ th[t].removes = 0

\* C26: when a put_blob call that wrote its temporary CSV file has exited,
\* the file was removed exactly once and is gone, whether the upload
\* succeeded or raised, and an upload error is the exception the caller
\* gets; until the call exits the file was not removed.
C26_PutBlobCleanup ==
  \A t \in Threads :
    th[t].op = "put_blob" =>
      /\ th[t].removes <= 1
      /\ (th[t].pc = "exited" /\ th[t].written) =>
           /\ th[t].removes = 1
           /\ fs[th[t].path] = ""
           /\ th[t].exc = (IF th[t].fault = "upload" THEN "GoogleCloudError" ELSE "")
      /\ th[t].pc # "exited" => th[t].removes = 0

\* a put_blob whose upload raised: the file is removed and the error is with
\* the caller
C26_Witness ==
  \E t \in Threads :
    /\ th[t].op = "put_blob"
    /\ th[t].fault = "upload"
    /\ th[t].pc = "exited"
    /\ th[t].written
    /\ th[t].removes = 1
    /\ th[t].exc = "GoogleCloudError"
    /\ fs[th[t].path] = ""

\* the call has chosen its local path and has not yet exited
InProgress(t) ==
  th[t].pc \in {"download", "read", "cleanup", "write_csv", "upload", "remove"}

\* C30: two calls in progress at the same time (put_blob, or get_blob
\* without local_path) on distinct blob names never use the same temporary
\* file path.
C30_DistinctTempPaths ==
  \A t, u \in Threads :
    (/\ t # u
     /\ InProgress(t)
     /\ InProgress(u)
     /\ th[t].blob_name # th[u].blob_name) => th[t].path # th[u].path

====
